---- MODULE Spec2Model ----
(***************************************************************************)
(* Model of detector_devanarayanan.py: the PiiScanner redaction            *)
(* strategies, PiiScanner.scan and the row loop of main.                   *)
(*                                                                         *)
(* JSON strings are sequences of one-character strings, so that slicing,   *)
(* splitting and full-string matching are computed and not assumed.        *)
(* A JSON value is [t, v]: t = "str" with v its characters, t = "num"      *)
(* with v the characters of str(number), or t = "null".                    *)
(* Scores are integers in thousandths (0.252 is 252).  The base scores     *)
(* used are even thousandths, so no running total is a rounding tie        *)
(* (..5 thousandths), where round(x, 2) depends on the binary expansion.   *)
(***************************************************************************)
EXTENDS Integers, Sequences, FiniteSets, TLC

VARIABLES
    conf,         \* self.conf: the rule catalog loaded by __init__
    pc,           \* "ready", "scanned" (after scan(r)), "rescanned" (after scan(s))
    rec,          \* the dict passed to the last scan call, as it was at the call
    rec_after,    \* the same dict object when scan returned
    res,          \* what the last scan returned, with its locals at return
    first,        \* rescan only: [arg, ret] of the scan before the last one
    mask_pc,      \* a strategy called on its own: "idle", "called", "returned"
    mask_fn,      \* its name
    mask_in,      \* its argument
    mask_out,     \* its result
    rows,         \* main: the rows csv.DictReader yields
    idx,          \* main: number of rows consumed by the for loop
    out,          \* main: the rows written by csv.writer
    count,        \* main: count
    main_pc       \* main: "loop", "done" (loop ended), "aborted" (outer except)

vars == <<conf, pc, rec, rec_after, res, first, mask_pc, mask_fn, mask_in, mask_out,
          rows, idx, out, count, main_pc>>
scanVars == <<conf, pc, rec, rec_after, res, first>>
maskVars == <<mask_pc, mask_fn, mask_in, mask_out>>
mainVars == <<rows, idx, out, count, main_pc>>

---------------------------------------------------------------------------
(* Bounds of the model *)

MaxLen == 6        \* longest string handed to a strategy on its own
MaxRows == 3       \* most rows in an input file

---------------------------------------------------------------------------
(* JSON values *)

S(chars) == [t |-> "str", v |-> chars]
N(digits) == [t |-> "num", v |-> digits]
Null == [t |-> "null", v |-> <<>>]

\* isinstance(x, str)
IsStr(x) == x.t = "str"

\* str(x)
PyStr(x) == IF x.t = "null" THEN <<"N", "o", "n", "e">> ELSE x.v

RECURSIVE Repeat(_, _)
\* c * n
Repeat(c, n) == IF n <= 0 THEN <<>> ELSE <<c>> \o Repeat(c, n - 1)

\* len(text) < MinMaskLen is masked whole
MinMaskLen == 5
\* characters kept at each end
KeepLen == 2

Stars == <<"*", "*", "*", "*">>

\* _mask_str
MaskStr(text) ==
    IF ~IsStr(text) \/ Len(text.v) < MinMaskLen THEN Stars
    ELSE SubSeq(text.v, 1, KeepLen)
         \o Repeat("X", Len(text.v) - 2 * KeepLen)
         \o SubSeq(text.v, Len(text.v) - KeepLen + 1, Len(text.v))

\* positions of '@' in a string
AtPositions(chars) == {i \in 1..Len(chars) : chars[i] = "@"}

Lowest(set) == CHOOSE i \in set : \A j \in set : i <= j
Highest(set) == CHOOSE i \in set : \A j \in set : i >= j

\* mail.rsplit('@', 1): the split a slip would make
SplitAtLast(chars) ==
    LET i == Highest(AtPositions(chars))
    IN  <<SubSeq(chars, 1, i - 1), SubSeq(chars, i + 1, Len(chars))>>

\* mail.split('@', 1) of a string holding an '@': <<user, domain>>
SplitAt(chars) ==
    LET i == Lowest(AtPositions(chars))
    IN  <<SubSeq(chars, 1, i - 1), SubSeq(chars, i + 1, Len(chars))>>

\* _mask_mail: AttributeError for a non-string, ValueError when split
\* yields one part; both fall back to _mask_str(str(mail))
MaskMail(mail) ==
    IF IsStr(mail) /\ AtPositions(mail.v) # {}
    THEN LET parts == SplitAt(mail.v)
         IN  MaskStr(S(parts[1])) \o <<"@">> \o parts[2]
    ELSE MaskStr(S(PyStr(mail)))

\* _mask_num
MaskNum(num) == MaskStr(S(PyStr(num)))

mask_string == <<"m", "a", "s", "k", "_", "s", "t", "r", "i", "n", "g">>
mask_email == <<"m", "a", "s", "k", "_", "e", "m", "a", "i", "l">>
mask_numeric == <<"m", "a", "s", "k", "_", "n", "u", "m", "e", "r", "i", "c">>

\* keys of self.redactors
RedactorNames == {mask_string, mask_email, mask_numeric}

\* self.redactors[name](value)
Redact(name, value) ==
    IF name = mask_string THEN MaskStr(value)
    ELSE IF name = mask_email THEN MaskMail(value)
    ELSE MaskNum(value)

---------------------------------------------------------------------------
(* The strategies on their own *)

\* the strings of at most n characters
StringsUpTo(alphabet, n) == UNION {[1..m -> alphabet] : m \in 0..n}

JaneDoe == <<"j", "a", "n", "e", ".", "d", "o", "e", "@",
             "e", "x", "a", "m", "p", "l", "e", ".", "c", "o", "m">>
Password123 == <<"p", "a", "s", "s", "w", "o", "r", "d", "1", "2", "3">>

MaskInputs ==
    {S(s) : s \in StringsUpTo({"a", "b", "@"}, MaxLen)}
    \cup {S(JaneDoe), S(Password123), N(<<"1", "2", "3", "4", "5">>),
          N(<<"7">>), Null}

NoValue == [t |-> "none", v |-> <<>>]

\* no strategy is being called on its own
MaskIdle ==
    /\ mask_pc = "idle"
    /\ mask_fn = <<>>
    /\ mask_in = NoValue
    /\ mask_out = <<>>

\* self.redactors[mask_fn](mask_in) is about to run
MaskCalled ==
    /\ mask_pc = "called"
    /\ mask_fn \in RedactorNames
    /\ mask_in \in MaskInputs
    /\ mask_out = <<>>

\* the strategy runs and returns
ApplyMask ==
    /\ mask_pc = "called"
    /\ mask_out' = Redact(mask_fn, mask_in)
    /\ mask_pc' = "returned"
    /\ UNCHANGED <<mask_fn, mask_in, scanVars, mainVars>>

---------------------------------------------------------------------------
(* Compiled patterns *)

\* A compiled pattern is a sequence of character classes, each consuming one
\* character: "d" is \d, "." is any character, anything else is a literal.
DigitChars == {"0", "1", "2", "3", "4", "5", "6", "7", "8", "9"}

ClassHas(cls, c) ==
    IF cls = "d" THEN c \in DigitChars
    ELSE IF cls = "." THEN TRUE
    ELSE c = cls

\* the pattern matches chars[from .. from + Len(regex) - 1]
MatchesAt(regex, chars, from) ==
    /\ from + Len(regex) - 1 <= Len(chars)
    /\ \A i \in 1..Len(regex) : ClassHas(regex[i], chars[from + i - 1])

\* compiled.search(chars): a match anywhere
SearchMatch(regex, chars) ==
    \E from \in 1..(Len(chars) + 1) : MatchesAt(regex, chars, from)

\* compiled.match(chars): a match at the start
PrefixMatch(regex, chars) == MatchesAt(regex, chars, 1)

\* compiled.fullmatch(chars): a match at the start that ends at the end
FullMatch(regex, chars) ==
    MatchesAt(regex, chars, 1) /\ Len(regex) = Len(chars)

---------------------------------------------------------------------------
(* scan *)

\* confidence is capped at 1.0, in thousandths
One == 1000
\* is_pii threshold 0.5, in thousandths
Half == 500
\* a combinatorial rule needs this many of its keys
MinKeys == 2

Min(a, b) == IF a <= b THEN a ELSE b

\* round(x, 2) of x thousandths, in thousandths (x is never a tie)
Round2(x) == ((x + 5) \div 10) * 10

SoloEntry(key) == [kind |-> "solo", keys |-> <<key>>]
ComboEntry(keys) == [kind |-> "combo", keys |-> keys]
NoPiiDetected == <<[kind |-> "No PII detected", keys |-> <<>>]>>

AliasRef(ref) == ref

\* rec.copy(): a new dict object, named "copy", with the same items
DictCopy(ref) == "copy"

SoloFiresOnSearch(rule, r) ==
    /\ rule.key \in DOMAIN r
    /\ IsStr(r[rule.key])
    /\ SearchMatch(rule.regex, r[rule.key].v)

\* the two conditions of the standalone loop
SoloFires(rule, r) ==
    /\ rule.key \in DOMAIN r
    /\ IsStr(r[rule.key])
    /\ FullMatch(rule.regex, r[rule.key].v)

RECURSIVE SoloLoop(_, _, _)
\* the standalone loop over the rules left; st = [heap, score, log], the
\* input dict being heap["in"] and safe_rec being heap[safe]
SoloLoop(rules, safe, st) ==
    IF rules = <<>> THEN st
    ELSE LET rule == Head(rules)
             r == st.heap["in"]
             next ==
                 IF SoloFires(rule, r)
                 THEN [heap |-> [st.heap EXCEPT ![safe][rule.key] =
                                     S(Redact(rule.redactor, r[rule.key]))],
                       score |-> st.score + rule.base_score,
                       log |-> Append(st.log, SoloEntry(rule.key))]
                 ELSE st
         IN  SoloLoop(Tail(rules), safe, next)

Dict(r) == [k |-> "dict", val |-> r]
List(elems) == [k |-> "list", val |-> elems]

\* k in rec, for a dict (its keys) and for a list (its elements)
HasKey(present, key) ==
    IF present.k = "dict" THEN key \in DOMAIN present.val
    ELSE key \in present.val

\* keys_found of one combinatorial rule
KeysFound(rule, present) ==
    SelectSeq(rule.keys, LAMBDA k : HasKey(present, k))

Range(seq) == {seq[i] : i \in 1..Len(seq)}

\* len(keys_found) >= 2
ComboMatched(found) == Len(found) >= MinKeys

ComboFlat(rule, found) == rule.base_score

\* rule['base_score'] * len(keys_found)
ComboScore(rule, found) == rule.base_score * Len(found)

RECURSIVE ComboLoop(_, _, _)
\* the combinatorial loop over the rules left; st = [score, log, combo_keys]
ComboLoop(rules, present, st) ==
    IF rules = <<>> THEN st
    ELSE LET rule == Head(rules)
             found == KeysFound(rule, present)
             next ==
                 IF ComboMatched(found)
                 THEN [score |-> st.score + ComboScore(rule, found),
                       log |-> Append(st.log, ComboEntry(found)),
                       combo_keys |-> st.combo_keys \cup Range(found)]
                 ELSE st
         IN  ComboLoop(Tail(rules), present, next)

\* self.conf['redaction_placeholders'].get(key); <<>> stands for None as
\* well as for "", which the code does not tell apart
Placeholder(cat, key) ==
    IF key \in DOMAIN cat.placeholders THEN cat.placeholders[key] ELSE <<>>

\* what the redaction loop leaves in safe_rec[key] for a key of combo_keys
Placed(cat, key, heap, safe) ==
    LET mask == Placeholder(cat, key)
    IN  IF mask \in RedactorNames THEN S(Redact(mask, heap["in"][key]))
        ELSE IF mask # <<>> THEN S(mask)
        ELSE heap[safe][key]

\* a redaction loop that leaves alone what the standalone loop masked
RedactUnmasked(cat, combo_keys, heap, safe) ==
    [heap EXCEPT ![safe] =
        [k \in DOMAIN heap[safe] |->
            IF k \in combo_keys /\ heap[safe][k] = heap["in"][k]
            THEN Placed(cat, k, heap, safe)
            ELSE heap[safe][k]]]

\* the redaction loop: each key of combo_keys reads and writes its own item
RedactPending(cat, combo_keys, heap, safe) ==
    [heap EXCEPT ![safe] =
        [k \in DOMAIN heap[safe] |->
            IF k \in combo_keys THEN Placed(cat, k, heap, safe)
            ELSE heap[safe][k]]]

Unclamped(score) == score

\* min(1.0, score)
Clamp(score) == Min(One, score)

\* confidence > 0.5
Verdict(confidence) == confidence > Half

\* scan(rec) for a dict: the returned tuple, the locals at return, the
\* input dict at return and safe_rec as it was after the standalone loop
ScanDict(cat, r) ==
    LET safe == DictCopy("in")
        heap0 == [o \in {"in", "copy"} |-> r]
        solo == SoloLoop(cat.standalone, safe,
                         [heap |-> heap0, score |-> 0, log |-> <<>>])
        combo == ComboLoop(cat.combos, Dict(solo.heap["in"]),
                           [score |-> solo.score, log |-> solo.log,
                            combo_keys |-> {}])
        heap3 == RedactPending(cat, combo.combo_keys, solo.heap, safe)
        confidence == Clamp(combo.score)
    IN  [safe_rec |-> heap3[safe],
         is_pii |-> Verdict(confidence),
         confidence |-> Round2(confidence),
         reason |-> IF combo.log # <<>> THEN combo.log ELSE NoPiiDetected,
         score |-> combo.score,
         solo_score |-> solo.score,
         solo_rec |-> solo.heap[safe],
         combo_keys |-> combo.combo_keys,
         rec_after |-> heap3["in"]]

---------------------------------------------------------------------------
(* Catalogs and records the scanner is run on *)

MaxSolo == 2       \* most standalone rules in a catalog
MaxCombos == 2     \* most combinatorial rules in a catalog

Fields == {"email", "phone", "name"}

Digits5 == <<"1", "2", "3", "4", "5">>
Digits6 == <<"1", "2", "3", "4", "5", "6">>

\* \d{5} and .{5}
D5 == <<"d", "d", "d", "d", "d">>
Any5 == <<".", ".", ".", ".", ".">>

Redacted == <<"[", "R", "E", "D", "A", "C", "T", "E", "D", "]">>

FieldValues == {S(<<>>), S(Digits5), S(Digits6), N(Digits5)}

Records == UNION {[keys -> FieldValues] : keys \in SUBSET Fields}

\* {regex, base_score, redactor} of a standalone rule
SoloChoices ==
    {[regex |-> D5, base_score |-> 252, redactor |-> mask_string],
     [regex |-> Any5, base_score |-> 600, redactor |-> mask_numeric],
     [regex |-> D5, base_score |-> 0, redactor |-> mask_email],
     [regex |-> Any5, base_score |-> -100, redactor |-> mask_string]}

SoloRule(key, c) ==
    [key |-> key, regex |-> c.regex, base_score |-> c.base_score,
     redactor |-> c.redactor]

\* standalone_pii_patterns in file order: at most n rules
SoloSeqs(n) ==
    UNION {[1..m -> {SoloRule(k, c) : k \in Fields, c \in SoloChoices}] :
              m \in 0..n}

DistinctKeys(rules) ==
    \A i, j \in 1..Len(rules) : rules[i].key = rules[j].key => i = j

\* {keys, base_score} of a combinatorial rule; keys is an ordered set
ComboChoices ==
    {[keys |-> <<"phone", "name">>, base_score |-> 252],
     [keys |-> <<"email", "phone", "name">>, base_score |-> 300],
     [keys |-> <<"name", "email">>, base_score |-> 600],
     [keys |-> <<"email", "phone">>, base_score |-> -100]}

\* combinatorial_pii_sets in file order: at most n rules
ComboSeqs(n) == UNION {[1..m -> ComboChoices] : m \in 0..n}

NoPlaceholders == [k \in {} |-> <<>>]

PlaceholderChoices ==
    {NoPlaceholders,
     [k \in Fields |-> IF k = "email" THEN mask_email
                       ELSE IF k = "phone" THEN mask_numeric ELSE mask_string],
     [k \in {"phone", "name"} |-> IF k = "phone" THEN Redacted ELSE <<>>]}

\* placeholder of "phone": a strategy, a literal, the empty literal
PhonePlaceholders == RedactorNames \cup {Redacted, <<>>}

\* catalogs that vary the standalone rules
SoloCatalogs ==
    {[standalone |-> q, combos |-> <<>>, placeholders |-> NoPlaceholders] :
        q \in {s \in SoloSeqs(MaxSolo) : DistinctKeys(s)}}

\* catalogs that vary the combinatorial rules
ComboCatalogs ==
    {[standalone |-> q, combos |-> c, placeholders |-> p] :
        q \in {<<>>, <<SoloRule("phone", [regex |-> D5, base_score |-> 252,
                                          redactor |-> mask_numeric])>>},
        c \in ComboSeqs(MaxCombos),
        p \in PlaceholderChoices}

\* catalogs where a field has a standalone rule, a combinatorial rule and
\* any placeholder
MixedCatalogs ==
    {[standalone |-> <<SoloRule("phone", s)>>, combos |-> <<c>>,
      placeholders |-> p] :
        s \in SoloChoices,
        c \in {x \in ComboChoices : x.base_score > 0 /\ x.base_score < 600},
        p \in {[k \in {"phone"} |-> m] : m \in PhonePlaceholders}
              \cup {NoPlaceholders}
              \cup {[k \in {"phone", "name"} |->
                        IF k = "phone" THEN m ELSE Redacted] :
                            m \in PhonePlaceholders}}

Catalogs == SoloCatalogs \cup ComboCatalogs \cup MixedCatalogs

NoCall == [arg |-> <<>>, ret |-> <<>>]

NoResult ==
    [safe_rec |-> <<>>, is_pii |-> FALSE, confidence |-> 0,
     reason |-> <<>>, score |-> 0, solo_score |-> 0, solo_rec |-> <<>>,
     combo_keys |-> {}, rec_after |-> <<>>]

ScanInit ==
    /\ pc = "ready"
    /\ rec = <<>>
    /\ rec_after = <<>>
    /\ res = NoResult
    /\ first = NoCall

\* scan(r) on any record
Scan ==
    /\ pc = "ready"
    /\ \E r \in Records :
        LET result == ScanDict(conf, r)
        IN  /\ rec' = r
            /\ rec_after' = result.rec_after
            /\ res' = result
    /\ first' = NoCall
    /\ pc' = "scanned"
    /\ UNCHANGED <<conf, maskVars, mainVars>>

\* scan(s) on the sanitized record the last scan returned
Rescan ==
    /\ pc = "scanned"
    /\ LET result == ScanDict(conf, res.safe_rec)
       IN  /\ rec' = res.safe_rec
           /\ rec_after' = result.rec_after
           /\ res' = result
    /\ first' = [arg |-> rec, ret |-> res]
    /\ pc' = "rescanned"
    /\ UNCHANGED <<conf, maskVars, mainVars>>

\* the caller drops the result
Forget ==
    /\ pc \in {"scanned", "rescanned"}
    /\ pc' = "ready"
    /\ rec' = <<>>
    /\ rec_after' = <<>>
    /\ res' = NoResult
    /\ first' = NoCall
    /\ UNCHANGED <<conf, maskVars, mainVars>>

---------------------------------------------------------------------------
(* main *)

\* the scanner is not run over a file
MainIdle ==
    /\ rows = <<>>
    /\ idx = 0
    /\ out = <<>>
    /\ count = 0
    /\ main_pc = "idle"

\* What row.get('data_json', '{}') gives: None for a short row, else a text,
\* which is named by what json.loads makes of it.
NoCell == [k |-> "none", val |-> <<>>]
Malformed == [k |-> "malformed", val |-> <<>>]
Scalar(x) == [k |-> "scalar", val |-> x]

\* json.loads(json_str)
JsonLoads(json_str) ==
    IF json_str.k = "none" THEN [exc |-> "TypeError"]
    ELSE IF json_str.k = "malformed" THEN [exc |-> "JSONDecodeError"]
    ELSE [exc |-> "none", data |-> json_str]

\* scan(rec) for a list: rec.copy() works, rec[key] and safe_rec[key] = ...
\* raise TypeError
ScanList(cat, elems) ==
    IF \E i \in 1..Len(cat.standalone) : cat.standalone[i].key \in elems
    THEN [exc |-> "TypeError"]
    ELSE LET combo == ComboLoop(cat.combos, List(elems),
                                [score |-> 0, log |-> <<>>, combo_keys |-> {}])
             confidence == Clamp(combo.score)
         IN  IF \E key \in combo.combo_keys : Placeholder(cat, key) # <<>>
             THEN [exc |-> "TypeError"]
             ELSE [exc |-> "none",
                   safe_rec |-> elems,
                   is_pii |-> Verdict(confidence),
                   confidence |-> Round2(confidence),
                   reason |-> IF combo.log # <<>> THEN combo.log
                              ELSE NoPiiDetected]

\* scanner.scan(data) for whatever json.loads returned
ScanAny(cat, data) ==
    IF data.k = "scalar" THEN [exc |-> "AttributeError"]
    ELSE IF data.k = "list" THEN ScanList(cat, data.val)
    ELSE LET result == ScanDict(cat, data.val)
         IN  [exc |-> "none", safe_rec |-> result.safe_rec,
              is_pii |-> result.is_pii, confidence |-> result.confidence,
              reason |-> result.reason]

Header == [record_id |-> 0, data |-> <<>>, is_pii |-> FALSE,
           confidence |-> 0, reason |-> <<"header">>]

DataParsingError == <<"Data parsing error">>

\* the row written by the inner except
ErrorRow(rec_id, json_str) ==
    [record_id |-> rec_id, data |-> json_str, is_pii |-> FALSE,
     confidence |-> 0, reason |-> DataParsingError]

\* the row written after a scan; data is json.dumps(clean_data)
ScannedRow(rec_id, kind, result) ==
    [record_id |-> rec_id, data |-> [k |-> kind, val |-> result.safe_rec],
     is_pii |-> result.is_pii, confidence |-> result.confidence,
     reason |-> result.reason]

CaughtByLoop == {"JSONDecodeError", "TypeError"}

\* except (json.JSONDecodeError, TypeError)
InnerExcept(exc) == exc \in CaughtByLoop

\* the outcome of the try block of one row: [exc] or [exc |-> "none", row]
RowOutcome(cat, rec_id, json_str) ==
    LET loaded == JsonLoads(json_str)
    IN  IF loaded.exc # "none" THEN [exc |-> loaded.exc]
        ELSE LET result == ScanAny(cat, loaded.data)
             IN  IF result.exc # "none" THEN [exc |-> result.exc]
                 ELSE [exc |-> "none",
                       row |-> ScannedRow(rec_id, loaded.data.k, result)]

MainPayloads ==
    {NoCell, Malformed, Scalar(N(Digits5)), List({}), List({"phone", "name"}),
     Dict(<<>>), Dict([k \in {"phone"} |-> S(Digits5)]),
     Dict([k \in {"phone", "name"} |-> S(Digits6)])}

\* the files of at most n rows; the record_id of a row is its position
RowSeqs(n) == UNION {[1..m -> MainPayloads] : m \in 0..n}

\* main has opened both files and written the header
MainStarted ==
    /\ rows \in RowSeqs(MaxRows)
    /\ idx = 0
    /\ out = <<Header>>
    /\ count = 0
    /\ main_pc = "loop"

\* one turn of the for loop
ProcessRow ==
    /\ main_pc = "loop"
    /\ idx < Len(rows)
    /\ LET rec_id == idx + 1
           json_str == rows[idx + 1]
           outcome == RowOutcome(conf, rec_id, json_str)
       IN  IF outcome.exc = "none"
           THEN /\ out' = Append(out, outcome.row)
                /\ count' = count + 1
                /\ idx' = idx + 1
                /\ main_pc' = "loop"
           ELSE IF InnerExcept(outcome.exc)
           THEN /\ out' = Append(out, ErrorRow(rec_id, json_str))
                /\ idx' = idx + 1
                /\ UNCHANGED <<count, main_pc>>
           ELSE \* except Exception: the loop is left, the files are closed
                /\ main_pc' = "aborted"
                /\ idx' = idx + 1
                /\ UNCHANGED <<out, count>>
    /\ UNCHANGED <<rows, scanVars, maskVars>>

\* the reader is exhausted: "Scan complete"
EndLoop ==
    /\ main_pc = "loop"
    /\ idx = Len(rows)
    /\ main_pc' = "done"
    /\ UNCHANGED <<rows, idx, out, count, scanVars, maskVars>>

---------------------------------------------------------------------------
(* Specifications *)

\* the scanner on its own: any catalog, any record, then a rescan
Init ==
    /\ conf \in Catalogs
    /\ ScanInit
    /\ MaskIdle
    /\ MainIdle

Next == Scan \/ Rescan \/ Forget

Spec == Init /\ [][Next]_vars

\* a redaction strategy on its own
InitMask ==
    /\ conf = [standalone |-> <<>>, combos |-> <<>>,
               placeholders |-> NoPlaceholders]
    /\ ScanInit
    /\ MaskCalled
    /\ MainIdle

NextMask == ApplyMask

SpecMask == InitMask /\ [][NextMask]_vars

\* main over a file
MainCatalogs ==
    {[standalone |-> <<>>, combos |-> <<>>, placeholders |-> NoPlaceholders]}
    \cup {c \in MixedCatalogs :
            /\ c.standalone[1].base_score = 600
            /\ c.combos[1].base_score = 252
            /\ DOMAIN c.placeholders # {"phone"}
            /\ Placeholder(c, "phone") \in {<<>>, mask_numeric}}

InitMain ==
    /\ conf \in MainCatalogs
    /\ ScanInit
    /\ MaskIdle
    /\ MainStarted

NextMain == ProcessRow \/ EndLoop

SpecMain == InitMain /\ [][NextMain]_vars

---------------------------------------------------------------------------
(* Properties *)

Returned == pc \in {"scanned", "rescanned"}

AllNonNeg(cat) ==
    /\ \A i \in 1..Len(cat.standalone) : cat.standalone[i].base_score >= 0
    /\ \A i \in 1..Len(cat.combos) : cat.combos[i].base_score >= 0

\* field present, textual, and the whole value matches the pattern
WholeMatch(rule, r) ==
    /\ rule.key \in DOMAIN r
    /\ r[rule.key].t = "str"
    /\ Len(r[rule.key].v) = Len(rule.regex)
    /\ \A i \in 1..Len(rule.regex) : ClassHas(rule.regex[i], r[rule.key].v[i])

RECURSIVE SumSolo(_, _)
\* sum of the base scores of the standalone rules whose value matches whole
SumSolo(rules, r) ==
    IF rules = <<>> THEN 0
    ELSE (IF WholeMatch(Head(rules), r) THEN Head(rules).base_score ELSE 0)
         + SumSolo(Tail(rules), r)

\* number of listed keys the record has, whatever their values
PresentCount(rule, r) == Cardinality(Range(rule.keys) \cap DOMAIN r)

RECURSIVE SumCombo(_, _)
\* sum over the combinatorial rules with two keys or more present of
\* base_score times the number of present keys
SumCombo(rules, r) ==
    IF rules = <<>> THEN 0
    ELSE (IF PresentCount(Head(rules), r) >= 2
          THEN Head(rules).base_score * PresentCount(Head(rules), r) ELSE 0)
         + SumCombo(Tail(rules), r)

\* the multiple of 0.01 nearest to x thousandths
NearestHundredth(x) ==
    CHOOSE h \in {10 * n : n \in -100..200} : h - x < 5 /\ x - h < 5

\* C1: scan leaves the dict it was given and the catalog as they were; the
\* redactions are in the returned copy only.
C1_NoMutation ==
    [][/\ conf' = conf
       /\ pc' \in {"scanned", "rescanned"} => rec_after' = rec']_vars

\* a scan that redacted something has returned
C1_Witness ==
    /\ pc = "scanned"
    /\ res.safe_rec # rec
    /\ rec_after = rec

\* C2: a standalone rule adds its base_score, logs its entry and writes its
\* redactor's output if and only if the field is present, textual and
\* matched from start to end.
C2_StandaloneIff ==
    Returned =>
        /\ DOMAIN res.solo_rec = DOMAIN rec
        /\ res.solo_score = SumSolo(conf.standalone, rec)
        /\ \A i \in 1..Len(conf.standalone) :
              LET rule == conf.standalone[i]
              IN  IF WholeMatch(rule, rec)
                  THEN /\ SoloEntry(rule.key) \in Range(res.reason)
                       /\ res.solo_rec[rule.key]
                              = S(Redact(rule.redactor, rec[rule.key]))
                  ELSE /\ SoloEntry(rule.key) \notin Range(res.reason)
                       /\ rule.key \in DOMAIN rec
                              => res.solo_rec[rule.key] = rec[rule.key]

\* one rule fired on a whole match while another saw its pattern only
\* inside a longer value, and a third a number, and did not fire
C2_Witness ==
    /\ pc = "scanned"
    /\ \E i, j \in 1..Len(conf.standalone) :
          /\ WholeMatch(conf.standalone[i], rec)
          /\ conf.standalone[i].base_score > 0
          /\ conf.standalone[j].key \in DOMAIN rec
          /\ rec[conf.standalone[j].key] = S(Digits6)
          /\ SearchMatch(conf.standalone[j].regex, Digits6)
          /\ SoloEntry(conf.standalone[j].key) \notin Range(res.reason)
    /\ res.solo_score > 0

\* C3: with non-negative base scores the returned confidence is within
\* [0.0, 1.0] and is min(1.0, total) rounded to 2 decimals.
C3_ConfidenceClamped ==
    (Returned /\ AllNonNeg(conf)) =>
        /\ res.confidence >= 0
        /\ res.confidence <= One
        /\ res.confidence =
              NearestHundredth(Min(1000, SumSolo(conf.standalone, rec)
                                           + SumCombo(conf.combos, rec)))

\* standalone and combinatorial rules fired and the total went over 1.0
C3_Witness ==
    /\ pc = "scanned"
    /\ AllNonNeg(conf)
    /\ res.score > One
    /\ res.confidence = One
    /\ Len(res.reason) >= 2

\* C4: is_pii is true exactly when the returned, rounded confidence
\* exceeds 0.5.
C4_VerdictOfReturned ==
    Returned => (res.is_pii <=> res.confidence > Half)

\* C5 as stated: rescanning the sanitized record never gives a higher
\* confidence (base scores non-negative).
C5_RescanNeverHigher ==
    (pc = "rescanned" /\ AllNonNeg(conf)) =>
        res.confidence <= first.ret.confidence

\* C5 amended: with non-negative base scores, rescanning the sanitized
\* record gives no higher confidence provided no sanitized value matches
\* whole a standalone pattern that the original value did not.
C5_RescanNotHigherUnlessNewMatch ==
    (/\ pc = "rescanned"
     /\ AllNonNeg(conf)
     /\ \A i \in 1..Len(conf.standalone) :
           WholeMatch(conf.standalone[i], rec)
               => WholeMatch(conf.standalone[i], first.arg))
        => res.confidence <= first.ret.confidence

\* the first scan masked a matching value, the rescan scored lower
C5_Witness ==
    /\ pc = "rescanned"
    /\ AllNonNeg(conf)
    /\ \A i \in 1..Len(conf.standalone) :
          WholeMatch(conf.standalone[i], rec)
              => WholeMatch(conf.standalone[i], first.arg)
    /\ rec # first.arg
    /\ first.ret.combo_keys # {}
    /\ res.confidence < first.ret.confidence

RECURSIVE ComboEntries(_, _)
\* the log entries of the combinatorial rules with two keys or more present
ComboEntries(rules, r) ==
    IF rules = <<>> THEN <<>>
    ELSE (IF PresentCount(Head(rules), r) >= 2
          THEN <<ComboEntry(SelectSeq(Head(rules).keys,
                                      LAMBDA k : k \in DOMAIN r))>>
          ELSE <<>>)
         \o ComboEntries(Tail(rules), r)

\* C6: each combinatorial rule adds base_score times the number of its
\* keys present when two or more are present, whatever the values, and
\* adds and logs nothing otherwise; the contributions add up.
C6_ComboLinear ==
    Returned =>
        /\ res.score - res.solo_score = SumCombo(conf.combos, rec)
        /\ SelectSeq(res.reason, LAMBDA e : e.kind = "combo")
              = ComboEntries(conf.combos, rec)

\* a rule with three keys present, one of them a number, and a second
\* matched rule sharing two keys with it
C6_Witness ==
    /\ pc = "scanned"
    /\ Len(conf.combos) = 2
    /\ Len(conf.combos[1].keys) = 3
    /\ conf.combos[1].base_score = 300
    /\ conf.combos[2].base_score = 252
    /\ DOMAIN rec = Fields
    /\ rec["phone"] = N(Digits5)
    /\ res.score - res.solo_score = 3 * 300 + 2 * 252

\* the local part as the claim words it
LocalMask(user) ==
    IF Len(user) < 5 THEN <<"*", "*", "*", "*">>
    ELSE <<user[1], user[2]>>
         \o [i \in 1..(Len(user) - 4) |-> "X"]
         \o <<user[Len(user) - 1], user[Len(user)]>>

\* mask_email of a string holding '@' masks what is before the first '@'
\* and keeps what follows it
MaskEmailSplitsFirst ==
    (/\ mask_pc = "returned"
     /\ mask_fn = mask_email
     /\ mask_in.t = "str"
     /\ "@" \in Range(mask_in.v))
        => \E i \in 1..Len(mask_in.v) :
              /\ mask_in.v[i] = "@"
              /\ \A j \in 1..(i - 1) : mask_in.v[j] # "@"
              /\ mask_out = LocalMask(SubSeq(mask_in.v, 1, i - 1))
                            \o <<"@">>
                            \o SubSeq(mask_in.v, i + 1, Len(mask_in.v))

MaskedJane ==
    (mask_pc = "returned" /\ mask_fn = mask_email /\ mask_in = S(JaneDoe))

\* C7 as stated: ... and mask_email("jane.doe@example.com") is
\* "jaXXXXXe@example.com".
C7_MaskEmailAsStated ==
    /\ MaskEmailSplitsFirst
    /\ MaskedJane =>
          mask_out = <<"j", "a", "X", "X", "X", "X", "X", "e", "@",
                       "e", "x", "a", "m", "p", "l", "e", ".", "c", "o", "m">>

\* C7 amended: ... and mask_email("jane.doe@example.com") is
\* "jaXXXXoe@example.com".
C7_MaskEmail ==
    /\ MaskEmailSplitsFirst
    /\ MaskedJane =>
          mask_out = <<"j", "a", "X", "X", "X", "X", "o", "e", "@",
                       "e", "x", "a", "m", "p", "l", "e", ".", "c", "o", "m">>

\* mask_email has returned for "jane.doe@example.com"
C7_Witness == MaskedJane /\ Len(mask_out) = Len(JaneDoe)

\* json.loads gives a dict for the row's payload
DecodesToRecord(json_str) == json_str.k = "dict"

\* C8: when main ends, every row has its output row, and a row whose
\* payload does not decode into a record has the error row.
C8_DecodeFailureNeverAborts ==
    main_pc \in {"done", "aborted"} =>
        /\ Len(out) = Len(rows) + 1
        /\ \A i \in 1..Len(rows) :
              ~DecodesToRecord(rows[i]) =>
                  out[i + 1] = [record_id |-> i, data |-> rows[i],
                                is_pii |-> FALSE, confidence |-> 0,
                                reason |-> DataParsingError]

\* C9: every pending field gets its placeholder strategy applied to the
\* original value, or its placeholder literal, whatever the literal; with
\* no placeholder it stays as the standalone pass left it (catalogs with
\* non-negative base scores).
C9_PlaceholderApplied ==
    (Returned /\ AllNonNeg(conf)) =>
        \A k \in res.combo_keys :
            IF k \notin DOMAIN conf.placeholders
            THEN res.safe_rec[k] = res.solo_rec[k]
            ELSE IF conf.placeholders[k] \in RedactorNames
            THEN res.safe_rec[k] = S(Redact(conf.placeholders[k], rec[k]))
            ELSE res.safe_rec[k] = S(conf.placeholders[k])

\* the field has a standalone rule that matched and is a key of a
\* matched combinatorial rule
MatchedByBoth(rule) ==
    /\ WholeMatch(rule, rec)
    /\ rule.key \in DOMAIN rec
    /\ \E i \in 1..Len(conf.combos) :
          /\ rule.key \in Range(conf.combos[i].keys)
          /\ PresentCount(conf.combos[i], rec) >= 2

\* C10 as stated: a field matched by both ends with its combinatorial
\* redaction (catalogs with non-negative base scores; the empty literal
\* of C9 put aside).
C10_ComboAlwaysWins ==
    (Returned /\ AllNonNeg(conf)) =>
        \A i \in 1..Len(conf.standalone) :
            LET rule == conf.standalone[i]
                k == rule.key
            IN  (MatchedByBoth(rule)
                 /\ ~(k \in DOMAIN conf.placeholders
                      /\ conf.placeholders[k] = <<>>))
                    => /\ k \in DOMAIN conf.placeholders
                       /\ res.safe_rec[k] =
                             IF conf.placeholders[k] \in RedactorNames
                             THEN S(Redact(conf.placeholders[k], rec[k]))
                             ELSE S(conf.placeholders[k])

\* C10 amended: a field matched by both ends with what the combinatorial
\* step writes for it, the strategy of its placeholder applied to the
\* original value or its placeholder literal; when that step writes
\* nothing for the field, the standalone redactor's output stays.
C10_ComboWinsWhenItWrites ==
    Returned =>
        \A i \in 1..Len(conf.standalone) :
            LET rule == conf.standalone[i]
                k == rule.key
                mask == IF k \in DOMAIN conf.placeholders
                        THEN conf.placeholders[k] ELSE <<>>
            IN  MatchedByBoth(rule) =>
                    res.safe_rec[k] =
                        IF mask \in RedactorNames
                        THEN S(Redact(mask, rec[k]))
                        ELSE IF mask # <<>> THEN S(mask)
                        ELSE S(Redact(rule.redactor, rec[k]))

\* a field masked by its standalone rule was then overwritten by the
\* literal of its placeholder
C10_Witness ==
    /\ pc = "scanned"
    /\ \E i \in 1..Len(conf.standalone) :
          LET k == conf.standalone[i].key
          IN  /\ MatchedByBoth(conf.standalone[i])
              /\ k \in DOMAIN conf.placeholders
              /\ conf.placeholders[k] = Redacted
              /\ res.solo_rec[k] = S(Redact(conf.standalone[i].redactor, rec[k]))
              /\ res.solo_rec[k] # rec[k]
              /\ res.safe_rec[k] = S(Redacted)

====
